---- MODULE Spec2Model ----
(***************************************************************************)
(* Model of the Futu trading wrappers: FutuConnection (connection.py),     *)
(* MarketData (market_data.py), Trading (trading.py), the strategy classes *)
(* (strategy.py) and FutuTrader.run_strategy (main.py).                    *)
(*                                                                         *)
(* The vendor SDK is an opaque service.  One vendor call has one of the    *)
(* outcomes                                                                *)
(*   "OK"   it returned (RET_OK, data)                                     *)
(*   "ERR"  it returned (RET_ERROR, message)                               *)
(*   "TypeError", "ValueError", "Error"  it raised that exception          *)
(*          ("Error" is any other subclass of Exception)                   *)
(* and the model draws the outcome of every call nondeterministically.     *)
(*                                                                         *)
(* An invocation of an operation is a "run": the record of the vendor      *)
(* calls it made, in order, and of what it returned.  XRuns(c) is the set  *)
(* of runs operation X can make from connection state c, branch by branch  *)
(* as in the source.                                                       *)
(*                                                                         *)
(* The specifications share the variables:                                 *)
(*   Spec      callers invoke the operations of the three wrapper objects, *)
(*             FutuTrader.run_strategy and Strategy.start/stop;            *)
(*   SpecLoop  the poll loop of Strategy.start (strategy.py:76-93) driving *)
(*             SimpleMovingAverageStrategy.process_data / execute_signal;  *)
(*   SpecConfig, SpecHash, SpecConn, SpecTest, SpecDemo, SpecMain,         *)
(*   SpecExamples and SpecHandlers each drive one part of the program and  *)
(*   are introduced where that part is modelled.                           *)
(***************************************************************************)
EXTENDS Integers, Sequences, FiniteSets, TLC

VARIABLES
    connected,          \* FutuConnection.connected
    quote_ctx,          \* FutuConnection.quote_ctx : "None" | "open" | "closed"
    trade_ctx,          \* FutuConnection.trade_ctx : "None" | "open" | "closed"
    market,             \* FutuConnection.market
    environ,            \* os.environ['TRADING_ENV'] : {} when unset, else {value}
    TRADING_ENV,        \* config.TRADING_ENV
    USE_MD5_HASH,       \* config.USE_MD5_HASH
    IS_PASSWORD_HASHED, \* config.IS_PASSWORD_HASHED
    UNLOCK_TRADE_PWD,   \* config.UNLOCK_TRADE_PWD
    lastOp,             \* the operation invoked last
    wasConnected,       \* FutuConnection.connected when lastOp was entered
    calls,              \* vendor calls made by lastOp, in order (in the loop:
                        \* those made through Trading.place_order in the
                        \* current iteration)
    ret,                \* what lastOp returned ("RAISE": it raised)
    sent,               \* arguments lastOp passed to the vendor: the unlock
                        \* password and the trading environment, {} when no
                        \* call carried one
    running,            \* Strategy.running
    last_position,      \* SimpleMovingAverageStrategy.last_position
    short_window,       \* SimpleMovingAverageStrategy.short_window
    long_window,        \* SimpleMovingAverageStrategy.long_window
    pc,                 \* position inside Strategy.start's loop
    kline,              \* closing prices the gateway serves, oldest first
    fetched,            \* what get_kline gave the last process_data: "None" | "data"
    signal,             \* result of the last process_data: "NONE" | "BUY" | "SELL"
    iter,               \* loop iterations completed
    emits,              \* signals emitted since the bar data last changed
    notPlaced,          \* execute_signal runs since then that placed no order
    raisedBy,           \* what ended the loop with an exception
    propagated,         \* the exception left start()
    hashed,             \* utils.hash_password applied once and twice
    args,               \* test_hk02727.main: the parsed command line
    test_results,       \* test_hk02727.main: <<name, result>> of the tests run
    exit_code,          \* test_hk02727.main: {} until it returns, then {code}
    mainPc,             \* main.main: where it is
    command,            \* main.main: args.command
    path,               \* main.main: how the try block was left
    cleanups,           \* main.main: calls of FutuTrader.cleanup
    examplesRun,        \* api/quote.py run_all_examples: examples that have ended
    openContexts,       \* contexts the examples opened and have not closed
    pushed,             \* SDK thread: what the base class handed the last callback
    handled             \* SDK thread: what that callback returned

connVars  == <<connected, quote_ctx, trade_ctx, market>>
cfgVars   == <<environ, TRADING_ENV, USE_MD5_HASH, IS_PASSWORD_HASHED, UNLOCK_TRADE_PWD>>
opVars    == <<lastOp, wasConnected, calls, ret, sent>>
stratVars == <<running, last_position, short_window, long_window>>
loopVars  == <<pc, kline, fetched, signal, iter, emits, notPlaced, raisedBy, propagated>>
testVars  == <<args, test_results, exit_code>>
mainVars  == <<mainPc, command, path, cleanups>>
exVars    == <<examplesRun, openContexts>>
sdkVars   == <<pushed, handled>>
progVars  == <<hashed, testVars, mainVars, exVars, sdkVars>>
vars == <<connVars, cfgVars, opVars, stratVars, loopVars, progVars>>

----------------------------------------------------------------------------
(* Bounds *)
MaxPrice == 2       \* closing prices are 1..MaxPrice
MaxBars  == 4       \* the gateway serves at most MaxBars bars
MaxWin   == 2       \* moving-average windows are 1..MaxWin
MaxIter  == 3       \* the loop is followed for MaxIter iterations
MaxPwdLen == 2      \* short passwords have at most MaxPwdLen characters

----------------------------------------------------------------------------
(* Vendor outcomes and runs *)
Excs     == {"TypeError", "ValueError", "Error"}
Outcomes == {"OK", "ERR"} \cup Excs

Call(ep, o) == <<[ep |-> ep, out |-> o]>>
Run(cs, r)  == [calls |-> cs, ret |-> r]
OkRet(o, good, bad) == IF o = "OK" THEN good ELSE bad

Conn == [connected |-> connected, quote_ctx |-> quote_ctx,
         trade_ctx |-> trade_ctx, market |-> market]

----------------------------------------------------------------------------
(* config.py *)
MARKET_MAP == [HK |-> "HK", US |-> "US", CN |-> "SH", CN_SZ |-> "SZ", SG |-> "SG"]
MarketArgs == {"HK", "CN", "SG", "JP"}      \* arguments tried for set_market
DEFAULT_MARKET == "HK"

\* A string whose characters matter is a sequence of one-character strings.
ToUpper == [a |-> "A", b |-> "B", c |-> "C", d |-> "D", e |-> "E", f |-> "F", g
           |-> "G", h |-> "H", i |-> "I", j |-> "J", k |-> "K", l |-> "L", m |->
           "M", n |-> "N", o |-> "O", p |-> "P", q |-> "Q", r |-> "R", s |-> "S",
           t |-> "T", u |-> "U", v |-> "V", w |-> "W", x |-> "X", y |-> "Y", z
           |-> "Z"]
ToLower == [A |-> "a", B |-> "b", C |-> "c", D |-> "d", E |-> "e", F |-> "f", G
           |-> "g", H |-> "h", I |-> "i", J |-> "j", K |-> "k", L |-> "l", M |->
           "m", N |-> "n", O |-> "o", P |-> "p", Q |-> "q", R |-> "r", S |-> "s",
           T |-> "t", U |-> "u", V |-> "v", W |-> "w", X |-> "x", Y |-> "y", Z
           |-> "z"]

\* str.upper and str.lower, character by character
RECURSIVE MapChars(_, _, _)
MapChars(table, s, n) ==
    IF n = 0 THEN <<>>
    ELSE Append(MapChars(table, s, n - 1),
                IF s[n] \in DOMAIN table THEN table[s[n]] ELSE s[n])

Upper(s) == MapChars(ToUpper, s, Len(s))
Lower(s) == MapChars(ToLower, s, Len(s))

REAL     == <<"R", "E", "A", "L">>
SIMULATE == <<"S", "I", "M", "U", "L", "A", "T", "E">>

\* os.getenv(name, default)
GetEnv(e, default) == IF e = {} THEN default ELSE CHOOSE v \in e : TRUE

\* ConfigTradingEnv taking REAL for a value that is neither.
ConfigTradingEnvDefaultReal(e) ==
    LET v == Upper(GetEnv(e, SIMULATE))
    IN  IF v \notin {REAL, SIMULATE} THEN REAL ELSE v

\* config.TRADING_ENV as the module computes it when it is imported
ConfigTradingEnv(e) ==
    LET v == Upper(GetEnv(e, SIMULATE))
    IN  IF v \notin {REAL, SIMULATE} THEN SIMULATE ELSE v

\* Values of the TRADING_ENV environment variable that are tried.
EnvValues ==
    {REAL, <<"r", "e", "a", "l">>, <<"R", "e", "a", "l">>,
     SIMULATE, <<"s", "i", "m", "u", "l", "a", "t", "e">>,
     <<"P", "A", "P", "E", "R">>, <<"R", "E", "A", "L", " ">>, <<>>}

PlainPwd == <<"p", "w", "d">>

----------------------------------------------------------------------------
(* utils.py *)

MD5_HEX_LEN == 32
HexDigits == <<"0", "1", "2", "3", "4", "5", "6", "7", "8", "9",
               "a", "b", "c", "d", "e", "f">>
HexSet == {HexDigits[i] : i \in DOMAIN HexDigits}

\* is_md5_hash: re.match(r'^[a-f0-9]{32}$', s.lower()); $ also matches
\* before a newline that ends the string.
IsMd5Hash(s) ==
    /\ s # <<>>
    /\ \/ Len(s) = MD5_HEX_LEN
       \/ Len(s) = MD5_HEX_LEN + 1 /\ s[Len(s)] = "\n"
    /\ \A i \in 1..MD5_HEX_LEN : Lower(s)[i] \in HexSet

\* Character codes of the characters passwords are made of.
Ord == ("a" :> 97) @@ ("F" :> 70) @@ ("9" :> 57) @@ ("g" :> 103) @@ ("\n" :> 10)
       @@ ("p" :> 112) @@ ("w" :> 119) @@ ("d" :> 100)
       @@ [i \in HexSet |-> 48 + CHOOSE k \in 1..16 : HexDigits[k] = i]

RECURSIVE Mix(_, _)
Mix(s, i) == IF i = 0 THEN 7 ELSE (31 * Mix(s, i - 1) + Ord[s[i]]) % 65521

\* hashlib.md5(password.encode()).hexdigest(): a digest of 32 lower-case
\* hexadecimal digits computed from every character of the password.  The
\* mixing function stands for MD5's; what is kept is that the result is a
\* function of the password and has the digest format.
Md5Hex(s) ==
    [i \in 1..MD5_HEX_LEN |-> HexDigits[((Mix(s, Len(s)) + i * i * (Len(s) + 1)) % 16) + 1]]

\* HashPassword hashing whatever the password looks like.
HashPasswordNoFormatTest(password, use_md5, is_already_hashed) ==
    IF password = <<>> THEN password
    ELSE IF is_already_hashed \/ ~use_md5 THEN password
    ELSE Md5Hex(password)

\* hash_password
HashPassword(password, use_md5, is_already_hashed) ==
    IF password = <<>> THEN password
    ELSE IF is_already_hashed \/ ~use_md5 THEN password
    ELSE IF IsMd5Hash(password) THEN password
    ELSE Md5Hex(password)

Rep(ch, n) == [i \in 1..n |-> ch]
PwdChars == {"a", "F", "9", "g"}

\* Passwords tried: every string of at most MaxPwdLen characters, and strings
\* of about the length of a digest.
Pwds ==
    UNION {[1..n -> PwdChars] : n \in 0..MaxPwdLen}
    \cup {Rep(ch, MD5_HEX_LEN) : ch \in PwdChars}
    \cup {Rep("a", MD5_HEX_LEN - 1), Rep("9", MD5_HEX_LEN + 1),
          Rep("F", MD5_HEX_LEN) \o <<"\n">>,
          [i \in 1..MD5_HEX_LEN |-> IF i % 2 = 0 THEN "a" ELSE "F"],
          [i \in 1..MD5_HEX_LEN |-> IF i = 5 THEN "g" ELSE "9"]}

----------------------------------------------------------------------------
(* connection.py *)

\* CloseConn leaving connected as it was.
CloseConnKeepsConnected(c) ==
    [c EXCEPT !.quote_ctx = IF c.quote_ctx = "None" THEN "None" ELSE "closed",
              !.trade_ctx = IF c.trade_ctx = "None" THEN "None" ELSE "closed"]

\* FutuConnection.close: closes the contexts it holds, clears connected.
CloseConn(c) ==
    [c EXCEPT !.connected = FALSE,
              !.quote_ctx = IF c.quote_ctx = "None" THEN "None" ELSE "closed",
              !.trade_ctx = IF c.trade_ctx = "None" THEN "None" ELSE "closed"]

SupportedMarket(m) == m \in {"HK", "US", "CN", "SH", "SZ"}

\* FutuConnection.connect: runs carry the connection state they leave.
ConnectRuns(c) ==
    LET q  == "OpenQuoteContext"
        t  == "OpenTradeContext"
        g  == "get_global_state"
        c1 == [c EXCEPT !.quote_ctx = "open"]
        c2 == [c1 EXCEPT !.trade_ctx = "open"]
    IN  \* OpenQuoteContext raises: except branch, close()
        {[c |-> CloseConn(c), calls |-> Call(q, e), ret |-> "False"] : e \in Excs}
        \cup
        ( IF ~SupportedMarket(c.market)
          THEN \* raise ValueError: except branch, close()
               {[c |-> CloseConn(c1), calls |-> Call(q, "OK"), ret |-> "False"]}
          ELSE \* the trade context constructor raises
               {[c |-> CloseConn(c1), calls |-> Call(q, "OK") \o Call(t, e),
                 ret |-> "False"] : e \in Excs}
               \cup
               \* get_global_state raises
               {[c |-> CloseConn(c2),
                 calls |-> Call(q, "OK") \o Call(t, "OK") \o Call(g, e),
                 ret |-> "False"] : e \in Excs}
               \cup
               \* get_global_state returns an error code: return False
               {[c |-> c2,
                 calls |-> Call(q, "OK") \o Call(t, "OK") \o Call(g, "ERR"),
                 ret |-> "False"]}
               \cup
               {[c |-> [c2 EXCEPT !.connected = TRUE],
                 calls |-> Call(q, "OK") \o Call(t, "OK") \o Call(g, "OK"),
                 ret |-> "True"]} )

\* The password unlock_trade passes to the vendor: the configured one; the
\* call of hash_password is commented out.
UnlockPassword(pwd, use_md5, is_already_hashed) == pwd

\* FutuConnection.unlock_trade
UnlockTradeRuns(c) ==
    LET u == "unlock_trade"
    IN  IF ~c.connected \/ c.trade_ctx = "None"
        THEN {Run(<<>>, "False")}
        ELSE IF UNLOCK_TRADE_PWD = <<>>
        THEN {Run(<<>>, "False")}
        ELSE \* the first call returns
             {Run(Call(u, o), OkRet(o, "True", "False")) : o \in {"OK", "ERR"}}
             \cup
             \* the first call raises: the legacy call; if that raises too,
             \* the outer except returns False
             {Run(Call(u, e) \o Call(u, o), OkRet(o, "True", "False")) :
                 e \in Excs, o \in Outcomes}

\* FutuConnection.set_market
SetMarketRuns(c, m) ==
    IF m \notin DOMAIN MARKET_MAP
    THEN {[c |-> c, calls |-> <<>>, ret |-> "False"]}
    ELSE LET c1 == [c EXCEPT !.market = MARKET_MAP[m]]
         IN  IF c.connected
             THEN ConnectRuns(CloseConn(c1))
             ELSE {[c |-> c1, calls |-> <<>>, ret |-> "True"]}

----------------------------------------------------------------------------
(* market_data.py *)

\* UnguardedRuns without the test of connected.
UnguardedRunsNoTest(c, ep) ==
    {Run(Call(ep, o),
         IF o = "OK" THEN "data" ELSE IF o = "ERR" THEN "None" ELSE "RAISE") :
        o \in Outcomes}

\* The three accessors with no try block: an exception of the vendor call
\* leaves the accessor.
UnguardedRuns(c, ep) ==
    IF ~c.connected
    THEN {Run(<<>>, "None")}
    ELSE {Run(Call(ep, o),
              IF o = "OK" THEN "data" ELSE IF o = "ERR" THEN "None" ELSE "RAISE") :
             o \in Outcomes}

GetStockQuoteRuns(c)     == UnguardedRuns(c, "get_stock_quote")
GetMarketSnapshotRuns(c) == UnguardedRuns(c, "get_market_snapshot")
SearchStocksRuns(c)      == UnguardedRuns(c, "search_stocks")

\* What get_kline makes of a (RET_OK, data) answer: the frame, or None when
\* data is None or neither a frame nor a list.
KlineShapes == {"data", "None"}

\* MarketData.get_kline
GetKlineRuns(c) ==
    LET k == "request_history_kline"
    IN  IF ~c.connected
        THEN {Run(<<>>, "None")}
        ELSE \* the first call returns
             {Run(Call(k, "OK"), s) : s \in KlineShapes}
             \cup {Run(Call(k, "ERR"), "None")}
             \cup
             \* ValueError: the alternative call
             {Run(Call(k, "ValueError") \o Call(k, "OK"), s) : s \in KlineShapes}
             \cup
             {Run(Call(k, "ValueError") \o Call(k, o), "None") :
                 o \in Outcomes \ {"OK"}}
             \cup
             \* any other exception: the outer except
             {Run(Call(k, e), "None") : e \in Excs \ {"ValueError"}}

\* MarketData.get_order_book
GetOrderBookRuns(c) ==
    IF ~c.connected
    THEN {Run(<<>>, "None")}
    ELSE {Run(Call("get_order_book", o), OkRet(o, "data", "None")) : o \in Outcomes}

\* MarketData.subscribe_stock
SubscribeStockRuns(c) ==
    LET b == "get_stock_basicinfo"
        s == "subscribe"
    IN  IF ~c.connected
        THEN {Run(<<>>, "False")}
        ELSE {Run(Call(b, e), "False") : e \in Excs}
             \cup
             \* a failed validation is only logged
             {Run(Call(b, o) \o Call(s, p), OkRet(p, "True", "False")) :
                 o \in {"OK", "ERR"}, p \in Outcomes}

----------------------------------------------------------------------------
(* trading.py *)

\* trd_env as every method of Trading computes it
TrdEnv(cfg) == IF cfg = REAL THEN "REAL" ELSE "SIMULATE"

\* Vendor calls that are passed trd_env.
TrdEnvEndpoints == {"place_order", "modify_order", "order_list_query",
                    "position_list_query", "accinfo_query"}

\* The arguments a run passes to the vendor.
Sent(cs) ==
    [password |-> IF \E i \in DOMAIN cs : cs[i].ep = "unlock_trade"
                  THEN {UnlockPassword(UNLOCK_TRADE_PWD, USE_MD5_HASH, IS_PASSWORD_HASHED)}
                  ELSE {},
     trd_env  |-> IF \E i \in DOMAIN cs : cs[i].ep \in TrdEnvEndpoints
                  THEN {TrdEnv(TRADING_ENV)}
                  ELSE {}]

\* PlaceOrderRuns calling place_order once more after it raised.
PlaceOrderRunsRetry(c) ==
    IF ~c.connected
    THEN {Run(<<>>, "None")}
    ELSE {Run(u.calls, "None") : u \in {x \in UnlockTradeRuns(c) : x.ret # "True"}}
         \cup
         {Run(u.calls \o Call("place_order", o), OkRet(o, "data", "None")) :
             u \in {x \in UnlockTradeRuns(c) : x.ret = "True"}, o \in {"OK", "ERR"}}
         \cup
         {Run(u.calls \o Call("place_order", e) \o Call("place_order", o),
              OkRet(o, "data", "None")) :
             u \in {x \in UnlockTradeRuns(c) : x.ret = "True"},
             e \in Excs, o \in Outcomes}

\* Trading.place_order
PlaceOrderRuns(c) ==
    IF ~c.connected
    THEN {Run(<<>>, "None")}
    ELSE {Run(u.calls, "None") : u \in {x \in UnlockTradeRuns(c) : x.ret # "True"}}
         \cup
         {Run(u.calls \o Call("place_order", o), OkRet(o, "data", "None")) :
             u \in {x \in UnlockTradeRuns(c) : x.ret = "True"}, o \in Outcomes}

\* CancelOrderRuns going on to modify_order whatever unlock_trade returned.
CancelOrderRunsNoUnlockTest(c) ==
    IF ~c.connected
    THEN {Run(<<>>, "False")}
    ELSE {Run(u.calls \o Call("modify_order", o), OkRet(o, "True", "False")) :
             u \in UnlockTradeRuns(c), o \in Outcomes}

\* Trading.cancel_order
CancelOrderRuns(c) ==
    IF ~c.connected
    THEN {Run(<<>>, "False")}
    ELSE {Run(u.calls, "False") : u \in {x \in UnlockTradeRuns(c) : x.ret # "True"}}
         \cup
         {Run(u.calls \o Call("modify_order", o), OkRet(o, "True", "False")) :
             u \in {x \in UnlockTradeRuns(c) : x.ret = "True"}, o \in Outcomes}

\* Trading.modify_order
ModifyOrderRuns(c) ==
    LET q == "order_list_query"
        m == "modify_order"
        unlocked == {x \in UnlockTradeRuns(c) : x.ret = "True"}
    IN  IF ~c.connected
        THEN {Run(<<>>, "False")}
        ELSE {Run(u.calls, "False") : u \in {x \in UnlockTradeRuns(c) : x.ret # "True"}}
             \cup
             \* the order list query fails
             {Run(u.calls \o Call(q, o), "False") :
                 u \in unlocked, o \in Outcomes \ {"OK"}}
             \cup
             \* the order is not in the list, or reading its row raises
             {Run(u.calls \o Call(q, "OK"), "False") : u \in unlocked}
             \cup
             {Run(u.calls \o Call(q, "OK") \o Call(m, o), OkRet(o, "True", "False")) :
                 u \in unlocked, o \in Outcomes}

\* The nested try blocks of get_order_list and get_positions: a TypeError is
\* followed by a call with fewer arguments, any exception of that one by the
\* basic call.  out is the outcome the enclosing code sees.
TypeErrorFallback(ep) ==
    {[calls |-> Call(ep, o), out |-> o] : o \in Outcomes \ {"TypeError"}}
    \cup
    {[calls |-> Call(ep, "TypeError") \o Call(ep, o), out |-> o] : o \in {"OK", "ERR"}}
    \cup
    {[calls |-> Call(ep, "TypeError") \o Call(ep, e) \o Call(ep, o), out |-> o] :
        e \in Excs, o \in Outcomes}

\* AnyErrorFallback making the basic call after an error code as well.
AnyErrorFallbackOnErr(ep) ==
    {[calls |-> Call(ep, "OK"), out |-> "OK"]}
    \cup
    {[calls |-> Call(ep, e) \o Call(ep, o), out |-> o] :
        e \in Excs \cup {"ERR"}, o \in Outcomes}

\* The try block of get_account_info: any exception is followed by the
\* basic call.
AnyErrorFallback(ep) ==
    {[calls |-> Call(ep, o), out |-> o] : o \in {"OK", "ERR"}}
    \cup
    {[calls |-> Call(ep, e) \o Call(ep, o), out |-> o] : e \in Excs, o \in Outcomes}

\* Trading.get_order_list: the account list first (its failure is only
\* logged), then the query.
GetOrderListRuns(c) ==
    IF ~c.connected
    THEN {Run(<<>>, "None")}
    ELSE {Run(Call("get_acc_list", a) \o f.calls, OkRet(f.out, "data", "None")) :
             a \in Outcomes, f \in TypeErrorFallback("order_list_query")}

\* Trading.get_positions
GetPositionsRuns(c) ==
    IF ~c.connected
    THEN {Run(<<>>, "None")}
    ELSE {Run(Call("get_acc_list", a) \o f.calls, OkRet(f.out, "data", "None")) :
             a \in Outcomes, f \in TypeErrorFallback("position_list_query")}

\* Trading.get_account_info
GetAccountInfoRuns(c) ==
    IF ~c.connected
    THEN {Run(<<>>, "None")}
    ELSE {Run(Call("get_acc_list", a) \o f.calls, OkRet(f.out, "data", "None")) :
             a \in Outcomes, f \in AnyErrorFallback("accinfo_query")}

\* Trading.get_account_list
GetAccountListRuns(c) ==
    IF ~c.connected
    THEN {Run(<<>>, "None")}
    ELSE {Run(Call("get_acc_list", o), OkRet(o, "data", "None")) : o \in Outcomes}

\* Trading._get_hk_account_id: no connected test; with no trade context the
\* attribute access raises inside the try and nothing is called.
GetHkAccountIdRuns(c) ==
    IF c.trade_ctx = "None"
    THEN {Run(<<>>, "None")}
    ELSE {Run(Call("get_acc_list", o), "None") : o \in Outcomes}
         \cup {Run(Call("get_acc_list", "OK"), "data")}

----------------------------------------------------------------------------
(* strategy.py: SimpleMovingAverageStrategy *)

BarSeqs == UNION {[1..n -> 1..MaxPrice] : n \in 0..MaxBars}
Windows == 1..MaxWin

\* Sum of the w closes ending at bar i.
RECURSIVE WindowSum(_, _, _)
WindowSum(bars, i, w) ==
    IF w = 0 THEN 0 ELSE bars[i] + WindowSum(bars, i - 1, w - 1)

\* ShortAboveLong with >= for >.
ShortAboveLongGe(bars, i, sw, lw) ==
    /\ i >= 1
    /\ i >= sw
    /\ i >= lw
    /\ WindowSum(bars, i, sw) * lw >= WindowSum(bars, i, lw) * sw

\* row['short_ma'] > row['long_ma'] on bar i.  rolling(window=w).mean() is
\* NaN on the first w-1 bars and a comparison with NaN is False; the means
\* are compared exactly, sum_s/sw > sum_l/lw.
ShortAboveLong(bars, i, sw, lw) ==
    /\ i >= 1
    /\ i >= sw
    /\ i >= lw
    /\ WindowSum(bars, i, sw) * lw > WindowSum(bars, i, lw) * sw

\* ProcessData without the test of last_position in the sell branch.
ProcessDataSellUngated(kd, bars, sw, lw, pos) ==
    IF kd = "None" \/ Len(bars) < lw
    THEN "NONE"
    ELSE IF Len(bars) < 2
    THEN "IndexError"
    ELSE LET n == Len(bars)
             current_crossover  == ShortAboveLong(bars, n, sw, lw)
             previous_crossover == ShortAboveLong(bars, n - 1, sw, lw)
         IN  IF current_crossover /\ ~previous_crossover
             THEN (IF pos # 1 THEN "BUY" ELSE "NONE")
             ELSE IF ~current_crossover /\ previous_crossover
             THEN "SELL"
             ELSE "NONE"

\* ProcessData with the test of last_position inverted in the buy branch.
ProcessDataBuyWhenHeld(kd, bars, sw, lw, pos) ==
    IF kd = "None" \/ Len(bars) < lw
    THEN "NONE"
    ELSE IF Len(bars) < 2
    THEN "IndexError"
    ELSE LET n == Len(bars)
             current_crossover  == ShortAboveLong(bars, n, sw, lw)
             previous_crossover == ShortAboveLong(bars, n - 1, sw, lw)
         IN  IF current_crossover /\ ~previous_crossover
             THEN (IF pos = 1 THEN "BUY" ELSE "NONE")
             ELSE IF ~current_crossover /\ previous_crossover
             THEN (IF pos = 1 THEN "SELL" ELSE "NONE")
             ELSE "NONE"

\* ProcessData without the tests of last_position.
ProcessDataUngated(kd, bars, sw, lw, pos) ==
    IF kd = "None" \/ Len(bars) < lw
    THEN "NONE"
    ELSE IF Len(bars) < 2
    THEN "IndexError"
    ELSE LET n == Len(bars)
             current_crossover  == ShortAboveLong(bars, n, sw, lw)
             previous_crossover == ShortAboveLong(bars, n - 1, sw, lw)
         IN  IF current_crossover /\ ~previous_crossover
             THEN "BUY"
             ELSE IF ~current_crossover /\ previous_crossover
             THEN "SELL"
             ELSE "NONE"

\* SimpleMovingAverageStrategy.process_data on what get_kline returned
\* (kd: "None" or "data", the frame whose closes are bars).
ProcessData(kd, bars, sw, lw, pos) ==
    IF kd = "None" \/ Len(bars) < lw
    THEN "NONE"
    ELSE IF Len(bars) < 2
    THEN "IndexError"                   \* kline_data.iloc[-2] on one row
    ELSE LET n == Len(bars)
             current_crossover  == ShortAboveLong(bars, n, sw, lw)
             previous_crossover == ShortAboveLong(bars, n - 1, sw, lw)
         IN  IF current_crossover /\ ~previous_crossover
             THEN (IF pos # 1 THEN "BUY" ELSE "NONE")
             ELSE IF ~current_crossover /\ previous_crossover
             THEN (IF pos = 1 THEN "SELL" ELSE "NONE")
             ELSE "NONE"

\* What execute_signal reads in the frames the two queries return.
AccountShapes  == {"rich",      \* power buys at least one lot of 100
                   "poor",      \* max_qty < 100
                   "nopower"}   \* empty frame or no 'power' column: KeyError
PositionShapes == {"flat",      \* no row for the stock
                   "held",      \* a row with qty > 0
                   "zero",      \* a row with qty <= 0
                   "nocode"}    \* rows but no 'code' column: KeyError

\* SimpleMovingAverageStrategy.execute_signal.  A run carries the calls made
\* through Trading.place_order, the result ("True", "False" or the exception
\* raised) and last_position afterwards.
ExecuteSignalRuns(c, sig, pos) ==
    LET infos == {r.ret : r \in GetAccountInfoRuns(c)}
        posns == {r.ret : r \in GetPositionsRuns(c)}
        Skip  == [calls |-> <<>>, ret |-> "False", pos |-> pos]
        Raise == [calls |-> <<>>, ret |-> "KeyError", pos |-> pos]
        Placed(p, newpos) ==
            [calls |-> p.calls,
             ret   |-> IF p.ret # "None" THEN "True" ELSE "False",
             pos   |-> IF p.ret # "None" THEN newpos ELSE pos]
        ByShapes(a, p) ==
            IF p = "nocode" THEN {Raise}
            ELSE IF sig = "BUY"
            THEN IF p \in {"held", "zero"} THEN {Skip}      \* has_position
                 ELSE IF a = "nopower" THEN {Raise}
                 ELSE IF a = "poor" THEN {Skip}
                 ELSE {Placed(x, 1) : x \in PlaceOrderRuns(c)}
            ELSE IF p # "held" THEN {Skip}
                 ELSE {Placed(x, 0) : x \in PlaceOrderRuns(c)}
    IN  IF sig \notin {"BUY", "SELL"}
        THEN {Skip}
        ELSE (IF "None" \in infos THEN {Skip} ELSE {})
             \cup
             (IF "data" \in infos
              THEN (IF "None" \in posns THEN {Skip} ELSE {})
                   \cup
                   (IF "data" \in posns
                    THEN UNION {ByShapes(a, p) : a \in AccountShapes, p \in PositionShapes}
                    ELSE {})
              ELSE {})

----------------------------------------------------------------------------
(* strategy.py: Strategy.start *)

\* start() calls self.setup() with no argument (strategy.py:70);
\* SimpleMovingAverageStrategy.setup has one required parameter, stock_code
\* (strategy.py:120).  The call binds only if enough arguments are passed;
\* otherwise it raises TypeError, outside the try block.
StartSetupArgs    == 0
SetupRequiredArgs == 1
SetupBinds(nargs) == nargs >= SetupRequiredArgs

\* StartCatches with the except Exception clause missing.
StartCatchesInterruptOnly(exc) == exc = "KeyboardInterrupt"

\* The except clauses around the loop: KeyboardInterrupt and every subclass
\* of Exception are caught, any other BaseException (SystemExit) leaves
\* start() after the finally clause.
StartCatches(exc) == exc # "SystemExit"

\* StartRuns without the test of running at its head.
StartRunsNoRunningTest(c, isRunning) ==
    IF ~SetupBinds(StartSetupArgs)
    THEN {[running |-> TRUE, pc |-> pc, calls |-> <<>>, ret |-> "RAISE"]}
    ELSE {[running |-> (s.ret = "True"),
           pc      |-> IF s.ret = "True" THEN "process" ELSE pc,
           calls   |-> s.calls,
           ret     |-> "None"] : s \in SubscribeStockRuns(c)}

\* Strategy.start up to the loop: what it leaves in running, whether the
\* loop is entered, the calls made and what comes back.
StartRuns(c, isRunning) ==
    IF isRunning
    THEN {[running |-> TRUE, pc |-> pc, calls |-> <<>>, ret |-> "None"]}
    ELSE IF ~SetupBinds(StartSetupArgs)
    THEN \* running was set, the TypeError of the call leaves start()
         {[running |-> TRUE, pc |-> pc, calls |-> <<>>, ret |-> "RAISE"]}
    ELSE {[running |-> (s.ret = "True"),
           pc      |-> IF s.ret = "True" THEN "process" ELSE pc,
           calls   |-> s.calls,
           ret     |-> "None"] : s \in SubscribeStockRuns(c)}

----------------------------------------------------------------------------
(* Actions of Spec: the connection *)

SetConn(c) ==
    /\ connected' = c.connected
    /\ quote_ctx' = c.quote_ctx
    /\ trade_ctx' = c.trade_ctx
    /\ market' = c.market

Invoked(op, r) ==
    /\ lastOp' = op
    /\ wasConnected' = connected
    /\ calls' = r.calls
    /\ ret' = r.ret
    /\ sent' = Sent(r.calls)

Connect ==
    /\ \E r \in ConnectRuns(Conn) : SetConn(r.c) /\ Invoked("connect", r)
    /\ UNCHANGED <<cfgVars, progVars, stratVars, loopVars>>

Close ==
    /\ SetConn(CloseConn(Conn))
    /\ Invoked("close", Run(<<>>, "None"))
    /\ UNCHANGED <<cfgVars, progVars, stratVars, loopVars>>

SetMarket ==
    /\ \E m \in MarketArgs : \E r \in SetMarketRuns(Conn, m) :
           SetConn(r.c) /\ Invoked("set_market", r)
    /\ UNCHANGED <<cfgVars, progVars, stratVars, loopVars>>

UnlockTrade ==
    /\ \E r \in UnlockTradeRuns(Conn) : Invoked("unlock_trade", r)
    /\ UNCHANGED <<connVars, cfgVars, progVars, stratVars, loopVars>>

----------------------------------------------------------------------------
(* Actions of Spec: the accessors *)

\* An accessor invocation: it changes no field of any object.
Access(op, runs) ==
    /\ \E r \in runs : Invoked(op, r)
    /\ UNCHANGED <<connVars, cfgVars, progVars, stratVars, loopVars>>

GetStockQuote     == Access("get_stock_quote", GetStockQuoteRuns(Conn))
GetMarketSnapshot == Access("get_market_snapshot", GetMarketSnapshotRuns(Conn))
SearchStocks      == Access("search_stocks", SearchStocksRuns(Conn))
GetKline          == Access("get_kline", GetKlineRuns(Conn))
GetOrderBook      == Access("get_order_book", GetOrderBookRuns(Conn))
SubscribeStock    == Access("subscribe_stock", SubscribeStockRuns(Conn))
PlaceOrder        == Access("place_order", PlaceOrderRuns(Conn))
CancelOrder       == Access("cancel_order", CancelOrderRuns(Conn))
ModifyOrder       == Access("modify_order", ModifyOrderRuns(Conn))
GetOrderList      == Access("get_order_list", GetOrderListRuns(Conn))
GetPositions      == Access("get_positions", GetPositionsRuns(Conn))
GetAccountInfo    == Access("get_account_info", GetAccountInfoRuns(Conn))
GetAccountList    == Access("get_account_list", GetAccountListRuns(Conn))
GetHkAccountId    == Access("_get_hk_account_id", GetHkAccountIdRuns(Conn))

----------------------------------------------------------------------------
(* Actions of Spec: the strategy object *)

\* SimpleMovingAverageStrategy.setup(stock_code, short_window, long_window)
Setup ==
    /\ \E sw \in Windows, lw \in Windows : \E r \in SubscribeStockRuns(Conn) :
           /\ short_window' = sw
           /\ long_window' = lw
           /\ Invoked("setup", r)
    /\ UNCHANGED <<connVars, cfgVars, progVars, running, last_position, loopVars>>

\* Strategy.start
Start ==
    /\ \E r \in StartRuns(Conn, running) :
           /\ running' = r.running
           /\ pc' = r.pc
           /\ Invoked("start", Run(r.calls, r.ret))
    /\ UNCHANGED <<connVars, cfgVars, progVars, last_position, short_window,
                   long_window, kline, fetched, signal, iter, emits, notPlaced,
                   raisedBy, propagated>>

\* Strategy.stop
Stop ==
    /\ running' = FALSE
    /\ Invoked("stop", Run(<<>>, "None"))
    /\ UNCHANGED <<connVars, cfgVars, progVars, last_position, short_window,
                   long_window, loopVars>>

\* FutuTrader.run_strategy: a new strategy object, setup with the given
\* windows, then start.
RunStrategy ==
    /\ \E name \in {"sma", "other"} :
         IF name # "sma"
         THEN /\ Invoked("run_strategy", Run(<<>>, "False"))
              /\ UNCHANGED <<stratVars, pc>>
         ELSE \E sw \in Windows, lw \in Windows : \E s \in SubscribeStockRuns(Conn) :
                /\ last_position' = 0
                /\ short_window' = sw
                /\ long_window' = lw
                /\ IF s.ret # "True"
                   THEN /\ running' = FALSE
                        /\ pc' = pc
                        /\ Invoked("run_strategy", Run(s.calls, "False"))
                   ELSE \E r \in StartRuns(Conn, FALSE) :
                        /\ running' = r.running
                        /\ pc' = r.pc
                        /\ Invoked("run_strategy",
                                   Run(s.calls \o r.calls,
                                       IF r.ret = "RAISE" THEN "RAISE" ELSE "True"))
    /\ UNCHANGED <<connVars, cfgVars, progVars, kline, fetched, signal, iter,
                   emits, notPlaced, raisedBy, propagated>>

----------------------------------------------------------------------------
(* Actions of SpecLoop: the loop of Strategy.start *)

\* An exception inside the try block: the except clauses, then finally.
LoopEnds(by, exc) ==
    /\ pc' = "done"
    /\ running' = FALSE
    /\ raisedBy' = by
    /\ propagated' = ~StartCatches(exc)

\* signal = self.process_data()
LoopProcessData ==
    /\ pc = "process"
    /\ running
    /\ iter < MaxIter
    /\ \E k \in GetKlineRuns(Conn) :
         LET s == ProcessData(k.ret, kline, short_window, long_window, last_position)
         IN  /\ fetched' = k.ret
             /\ lastOp' = "process_data"
             /\ wasConnected' = connected
             /\ calls' = <<>>
             /\ ret' = s
             /\ sent' = Sent(<<>>)
             /\ IF s \in {"NONE", "BUY", "SELL"}
                THEN /\ signal' = s
                     /\ pc' = "signal"
                     /\ emits' = IF s = "NONE" THEN emits ELSE emits + 1
                     /\ UNCHANGED <<running, raisedBy, propagated>>
                ELSE /\ LoopEnds("process_data", s)
                     /\ UNCHANGED <<signal, emits>>
    /\ UNCHANGED <<connVars, cfgVars, progVars, last_position, short_window,
                   long_window, kline, iter, notPlaced>>

\* if signal: self.execute_signal(signal)
LoopExecuteSignal ==
    /\ pc = "signal"
    /\ signal # "NONE"
    /\ \E r \in ExecuteSignalRuns(Conn, signal, last_position) :
         /\ last_position' = r.pos
         /\ lastOp' = "execute_signal"
         /\ wasConnected' = connected
         /\ calls' = r.calls
         /\ ret' = r.ret
         /\ sent' = Sent(r.calls)
         /\ IF r.ret \in {"True", "False"}
            THEN /\ pc' = "sleep"
                 /\ notPlaced' = IF r.ret = "True" THEN notPlaced ELSE notPlaced + 1
                 /\ UNCHANGED <<running, raisedBy, propagated>>
            ELSE /\ LoopEnds("execute_signal", r.ret)
                 /\ UNCHANGED notPlaced
    /\ UNCHANGED <<connVars, cfgVars, progVars, short_window, long_window,
                   kline, fetched, signal, iter, emits>>

\* no signal: execute_signal is not called
LoopNoSignal ==
    /\ pc = "signal"
    /\ signal = "NONE"
    /\ pc' = "sleep"
    /\ UNCHANGED <<connVars, cfgVars, progVars, opVars, stratVars, kline, fetched,
                   signal, iter, emits, notPlaced, raisedBy, propagated>>

\* time.sleep(1), then the test of self.running
LoopSleep ==
    /\ pc = "sleep"
    /\ iter' = iter + 1
    /\ pc' = IF running THEN "process" ELSE "done"
    /\ UNCHANGED <<connVars, cfgVars, progVars, opVars, stratVars, kline, fetched,
                   signal, emits, notPlaced, raisedBy, propagated>>

\* The gateway serves other bars from now on.
MarketTick ==
    /\ pc = "sleep"
    /\ \E b \in BarSeqs \ {kline} : kline' = b
    /\ emits' = 0
    /\ notPlaced' = 0
    /\ UNCHANGED <<connVars, cfgVars, progVars, opVars, stratVars, pc, fetched,
                   signal, iter, raisedBy, propagated>>

\* A signal arrives while the loop runs: KeyboardInterrupt with Python's
\* default SIGINT handler, SystemExit with main.handle_exit installed.
LoopInterrupt ==
    /\ pc \in {"process", "signal", "sleep"}
    /\ \E exc \in {"KeyboardInterrupt", "SystemExit"} : LoopEnds("signal", exc)
    /\ UNCHANGED <<connVars, cfgVars, progVars, opVars, last_position, short_window,
                   long_window, kline, fetched, signal, iter, emits, notPlaced>>

----------------------------------------------------------------------------
IdleConn ==
    /\ connected = FALSE
    /\ quote_ctx = "None"
    /\ trade_ctx = "None"
    /\ market = DEFAULT_MARKET

IdleOp ==
    /\ lastOp = "init"
    /\ wasConnected = FALSE
    /\ calls = <<>>
    /\ ret = "None"
    /\ sent = Sent(<<>>)

IdleLoop ==
    /\ pc = "idle"
    /\ kline = <<>>
    /\ fetched = "None"
    /\ signal = "NONE"
    /\ iter = 0
    /\ emits = 0
    /\ notPlaced = 0
    /\ raisedBy = "none"
    /\ propagated = FALSE

\* The configuration of an environment that sets only the unlock password.
DefaultConfig ==
    /\ environ = {}
    /\ TRADING_ENV = ConfigTradingEnv(environ)
    /\ USE_MD5_HASH = TRUE
    /\ IS_PASSWORD_HASHED = FALSE
    /\ UNLOCK_TRADE_PWD \in {<<>>, PlainPwd}

NotHashed == [p |-> <<>>, use_md5 |-> TRUE, is_already_hashed |-> FALSE,
              once |-> {}, twice |-> {}]

NoArgs == [connection |-> FALSE, market |-> FALSE, account |-> FALSE,
           order |-> FALSE, all |-> FALSE, strict |-> FALSE]

IdleProg ==
    /\ hashed = NotHashed
    /\ args = NoArgs
    /\ test_results = <<>>
    /\ exit_code = {}
    /\ mainPc = "start"
    /\ command = "unparsed"
    /\ path = "none"
    /\ cleanups = 0
    /\ examplesRun = 0
    /\ openContexts = 0
    /\ pushed = {}
    /\ handled = {}

Init ==
    /\ IdleConn
    /\ DefaultConfig
    /\ IdleOp
    /\ running = FALSE
    /\ last_position = 0
    /\ short_window = 10
    /\ long_window = 30
    /\ IdleLoop
    /\ IdleProg

Next ==
    \/ Connect
    \/ Close
    \/ SetMarket
    \/ UnlockTrade
    \/ GetStockQuote
    \/ GetMarketSnapshot
    \/ SearchStocks
    \/ GetKline
    \/ GetOrderBook
    \/ SubscribeStock
    \/ PlaceOrder
    \/ CancelOrder
    \/ ModifyOrder
    \/ GetOrderList
    \/ GetPositions
    \/ GetAccountInfo
    \/ GetAccountList
    \/ GetHkAccountId
    \/ Setup
    \/ Start
    \/ Stop
    \/ RunStrategy

Spec == Init /\ [][Next]_vars

\* The state in which the loop of start() is entered: setup() has returned
\* True, so the stock is subscribed on a connected connection.  This needs a
\* setup that takes the call start() makes; see StartRuns.
InitLoop ==
    /\ connected = TRUE
    /\ quote_ctx = "open"
    /\ trade_ctx = "open"
    /\ market = DEFAULT_MARKET
    /\ DefaultConfig
    /\ IdleOp
    /\ running = TRUE
    /\ last_position = 0
    /\ short_window \in Windows
    /\ long_window \in Windows
    /\ pc = "process"
    /\ kline \in BarSeqs
    /\ fetched = "None"
    /\ signal = "NONE"
    /\ iter = 0
    /\ emits = 0
    /\ notPlaced = 0
    /\ raisedBy = "none"
    /\ propagated = FALSE
    /\ IdleProg

NextLoop ==
    \/ LoopProcessData
    \/ LoopExecuteSignal
    \/ LoopNoSignal
    \/ LoopSleep
    \/ MarketTick
    \/ LoopInterrupt

SpecLoop == InitLoop /\ [][NextLoop]_vars

----------------------------------------------------------------------------
(* main.py and test_hk02727.py: functions that drive the wrappers *)

\* A call of a wrapper inside such a function: its vendor calls, then an
\* entry with the wrapper's name and what it returned.
Wrapped(name, r) == r.calls \o Call(name, r.ret)

SUBSCRIBE_STOCK == "MarketData.subscribe_stock"
GET_STOCK_QUOTE == "MarketData.get_stock_quote"

\* FutuConnection(): the state __init__ leaves
FreshConn == [connected |-> FALSE, quote_ctx |-> "None", trade_ctx |-> "None",
              market |-> DEFAULT_MARKET]

\* The calls from get_stock_quote to the end of the three functions below:
\* the quote, then order book and K-line in the given order; an exception of
\* get_stock_quote is caught by the function's except clause.
QuoteThenRest(c, second, third) ==
    {Run(Wrapped(GET_STOCK_QUOTE, q), "False") :
        q \in {x \in GetStockQuoteRuns(c) : x.ret = "RAISE"}}
    \cup
    {Run(Wrapped(GET_STOCK_QUOTE, q) \o a.calls \o b.calls, "True") :
        q \in {x \in GetStockQuoteRuns(c) : x.ret # "RAISE"},
        a \in second, b \in third}

\* RunQuoteDemoRuns reading the quote whatever subscribe_stock returned.
RunQuoteDemoRunsUnsubscribed(c) ==
    {Run(Wrapped(SUBSCRIBE_STOCK, s) \o r.calls, r.ret) :
        s \in SubscribeStockRuns(c),
        r \in QuoteThenRest(c, GetOrderBookRuns(c), GetKlineRuns(c))}

\* FutuTrader.run_quote_demo
RunQuoteDemoRuns(c) ==
    {Run(Wrapped(SUBSCRIBE_STOCK, s), "False") :
        s \in {x \in SubscribeStockRuns(c) : x.ret # "True"}}
    \cup
    {Run(Wrapped(SUBSCRIBE_STOCK, s) \o r.calls, r.ret) :
        s \in {x \in SubscribeStockRuns(c) : x.ret = "True"},
        r \in QuoteThenRest(c, GetOrderBookRuns(c), GetKlineRuns(c))}

\* FutuTrader.initialize: connect, then the account list, whose failure is
\* only logged.
InitializeRuns(c) ==
    {[c |-> k.c, calls |-> k.calls, ret |-> "False"] :
        k \in {x \in ConnectRuns(c) : x.ret # "True"}}
    \cup
    UNION {{[c |-> k.c, calls |-> k.calls \o a.calls, ret |-> "True"] :
               a \in GetAccountListRuns(k.c)} :
              k \in {x \in ConnectRuns(c) : x.ret = "True"}}

\* test_connection
TestConnectionRuns ==
    {Run(k.calls, "False") : k \in {x \in ConnectRuns(FreshConn) : x.ret # "True"}}
    \cup
    UNION {{Run(k.calls \o u.calls, "True") : u \in UnlockTradeRuns(k.c)} :
              k \in {x \in ConnectRuns(FreshConn) : x.ret = "True"}}

\* test_market_data
TestMarketDataRuns ==
    {Run(k.calls, "False") : k \in {x \in ConnectRuns(FreshConn) : x.ret # "True"}}
    \cup
    UNION {{Run(k.calls \o Wrapped(SUBSCRIBE_STOCK, s), "False") :
               s \in {x \in SubscribeStockRuns(k.c) : x.ret # "True"}}
           \cup
           {Run(k.calls \o Wrapped(SUBSCRIBE_STOCK, s) \o r.calls, r.ret) :
               s \in {x \in SubscribeStockRuns(k.c) : x.ret = "True"},
               r \in QuoteThenRest(k.c, GetKlineRuns(k.c), GetOrderBookRuns(k.c))} :
              k \in {x \in ConnectRuns(FreshConn) : x.ret = "True"}}

\* test_order_simulation, from a connection that is connected
OrderSimulationRuns(c) ==
    UNION {
        {Run(u.calls \o Wrapped(SUBSCRIBE_STOCK, s), "False") :
            s \in {x \in SubscribeStockRuns(c) : x.ret # "True"}}
        \cup
        UNION {
            \* the quote is None, is empty or has no last_price, or
            \* get_stock_quote raised
            {Run(u.calls \o Wrapped(SUBSCRIBE_STOCK, s) \o Wrapped(GET_STOCK_QUOTE, q),
                 "False") : q \in GetStockQuoteRuns(c)}
            \cup
            \* a quote with last_price: the funds are looked up when trade
            \* is unlocked
            {Run(u.calls \o Wrapped(SUBSCRIBE_STOCK, s) \o Wrapped(GET_STOCK_QUOTE, q)
                     \o a.calls, "True") :
                q \in {x \in GetStockQuoteRuns(c) : x.ret = "data"},
                a \in IF u.ret = "True" THEN GetAccountInfoRuns(c) ELSE {Run(<<>>, "None")}} :
            s \in {x \in SubscribeStockRuns(c) : x.ret = "True"}} :
        u \in UnlockTradeRuns(c)}

\* test_order_simulation
TestOrderSimulationRuns ==
    {Run(k.calls, "False") : k \in {x \in ConnectRuns(FreshConn) : x.ret # "True"}}
    \cup
    UNION {{Run(k.calls \o r.calls, r.ret) : r \in OrderSimulationRuns(k.c)} :
              k \in {x \in ConnectRuns(FreshConn) : x.ret = "True"}}

\* test_account_info returns True or False.
TestAccountInfoRets == {"True", "False"}

Rets(runs) == {r.ret : r \in runs}

\* The tests of test_hk02727.main in the order it runs them, with the flag
\* that selects each and what each can return.
TestNames == <<"connection", "market", "account", "order">>
TestRets ==
    [connection : Rets(TestConnectionRuns), market : Rets(TestMarketDataRuns),
     account : TestAccountInfoRets, order : Rets(TestOrderSimulationRuns)]

critical_tests == {"connection", "market"}
optional_tests == {"account", "order"}

\* ExitCode taking only the connection test as critical.
ExitCodeConnectionOnly(strict, results) ==
    IF strict
    THEN IF \A i \in DOMAIN results : results[i][2] THEN 0 ELSE 1
    ELSE IF \E i \in DOMAIN results :
               results[i][1] = "connection" /\ ~results[i][2]
         THEN 1 ELSE 0

\* The return code main computes from test_results.
ExitCode(strict, results) ==
    IF strict
    THEN IF \A i \in DOMAIN results : results[i][2] THEN 0 ELSE 1
    ELSE IF \E i \in DOMAIN results :
               results[i][1] \in critical_tests /\ ~results[i][2]
         THEN 1 ELSE 0

RECURSIVE RunTests(_, _, _)
\* test_results after the tests from position i on were run: a test is run
\* when its flag or --all is set; res gives what each test returns.
RunTests(a, res, i) ==
    IF i > Len(TestNames) THEN <<>>
    ELSE LET name == TestNames[i]
         IN  (IF a[name] \/ a.all THEN <<(<<name, res[name] = "True">>)>> ELSE <<>>)
             \o RunTests(a, res, i + 1)

\* test_hk02727.main
TestMain ==
    /\ exit_code = {}
    /\ \E res \in TestRets : \E parsed \in [DOMAIN NoArgs -> BOOLEAN] :
           LET a == IF parsed.connection \/ parsed.market \/ parsed.account
                        \/ parsed.order \/ parsed.all
                    THEN parsed ELSE [parsed EXCEPT !.all = TRUE]
           IN  /\ args' = a
               /\ test_results' = RunTests(a, res, 1)
               /\ exit_code' = {ExitCode(a.strict, RunTests(a, res, 1))}
    /\ UNCHANGED <<connVars, cfgVars, opVars, stratVars, loopVars, hashed, mainVars, exVars, sdkVars>>

\* sys.exit(main()) ended the process; the script is started again.
TestRestart ==
    /\ exit_code # {}
    /\ args' = NoArgs
    /\ test_results' = <<>>
    /\ exit_code' = {}
    /\ UNCHANGED <<connVars, cfgVars, opVars, stratVars, loopVars, hashed, mainVars, exVars, sdkVars>>

NextTest ==
    \/ TestMain
    \/ TestRestart

SpecTest == Init /\ [][NextTest]_vars

----------------------------------------------------------------------------
(* SpecDemo: the functions that read a quote.  Each is followed once, from *)
(* the start of its script: the two tests make their own connection, and    *)
(* main.py calls run_quote_demo when initialize has returned True.          *)

AtStart == lastOp = "init"

Initialize ==
    /\ AtStart
    /\ \E r \in InitializeRuns(Conn) : SetConn(r.c) /\ Invoked("initialize", r)
    /\ UNCHANGED <<cfgVars, progVars, stratVars, loopVars>>

RunQuoteDemo ==
    /\ lastOp = "initialize" /\ ret = "True"
    /\ Access("run_quote_demo", RunQuoteDemoRuns(Conn))

TestMarketData ==
    /\ AtStart
    /\ Access("test_market_data", TestMarketDataRuns)

TestOrderSimulation ==
    /\ AtStart
    /\ Access("test_order_simulation", TestOrderSimulationRuns)

NextDemo ==
    \/ Initialize
    \/ RunQuoteDemo
    \/ TestMarketData
    \/ TestOrderSimulation

SpecDemo == Init /\ [][NextDemo]_vars

----------------------------------------------------------------------------
(* SpecMain: main.main from the installation of the signal handlers on *)

Commands == {"quote", "account", "strategy", "hash-pwd", "none"}

\* How args.command ends inside the try block, and what it leaves in
\* Strategy.running: run_quote_demo and run_account_demo return; run_strategy
\* returns False when setup fails and otherwise calls start().
CommandOutcomes(cmd, c) ==
    IF cmd = "quote"
    THEN {[how |-> IF r.ret = "RAISE" THEN "raised" ELSE "completed",
           running |-> FALSE] : r \in RunQuoteDemoRuns(c)}
    ELSE IF cmd = "strategy"
    THEN {[how |-> "completed", running |-> FALSE] :
             x \in {y \in SubscribeStockRuns(c) : y.ret # "True"}}
         \cup
         {[how |-> IF r.ret = "RAISE" THEN "raised" ELSE "completed",
           running |-> r.running] :
             x \in {y \in SubscribeStockRuns(c) : y.ret = "True"},
             r \in StartRuns(c, FALSE)}
    ELSE {[how |-> "completed", running |-> FALSE]}

\* The states connect() can be in when it is interrupted.
InterruptedConnect(c) ==
    {c, [c EXCEPT !.quote_ctx = "open"],
        [c EXCEPT !.quote_ctx = "open", !.trade_ctx = "open"]}
    \cup {r.c : r \in ConnectRuns(c)}

\* setup_environment() and parser.parse_args(): either can end the process
\* (an unreadable .env.example, a command line argparse rejects); hash-pwd
\* returns before a trader is made.
MainParse ==
    /\ mainPc = "start"
    /\ \E cmd \in Commands \cup {"rejected"} :
         IF cmd = "rejected"
         THEN mainPc' = "exit" /\ path' = "before_try" /\ UNCHANGED command
         ELSE /\ command' = cmd
              /\ IF cmd = "hash-pwd"
                 THEN mainPc' = "exit" /\ path' = "hash-pwd"
                 ELSE mainPc' = "parsed" /\ UNCHANGED path
    /\ UNCHANGED <<connVars, cfgVars, opVars, stratVars, loopVars, hashed, testVars,
                   exVars, sdkVars, cleanups>>

\* trader = FutuTrader(); try:
MainEnterTry ==
    /\ mainPc = "parsed"
    /\ mainPc' = "initialize"
    /\ UNCHANGED <<connVars, cfgVars, opVars, stratVars, loopVars, hashed, testVars,
                   exVars, sdkVars, command, path, cleanups>>

\* MainInitialize returning 1 without passing the finally clause.
MainInitializeOutsideTry ==
    /\ mainPc = "initialize"
    /\ \E r \in InitializeRuns(Conn) :
         /\ SetConn(r.c)
         /\ Invoked("initialize", r)
         /\ IF r.ret = "True"
            THEN mainPc' = "command" /\ UNCHANGED path
            ELSE mainPc' = "exit" /\ path' = "init_failed"
    /\ UNCHANGED <<cfgVars, stratVars, loopVars, hashed, testVars, exVars, sdkVars, command,
                   cleanups>>

\* if not trader.initialize(): return 1
MainInitialize ==
    /\ mainPc = "initialize"
    /\ \E r \in InitializeRuns(Conn) :
         /\ SetConn(r.c)
         /\ Invoked("initialize", r)
         /\ IF r.ret = "True"
            THEN mainPc' = "command" /\ UNCHANGED path
            ELSE mainPc' = "finally" /\ path' = "init_failed"
    /\ UNCHANGED <<cfgVars, stratVars, loopVars, hashed, testVars, exVars, sdkVars, command,
                   cleanups>>

\* The requested command; an exception that leaves it is caught by except
\* Exception, and either way the finally clause is next.
MainCommand ==
    /\ mainPc = "command"
    /\ \E o \in CommandOutcomes(command, Conn) :
         /\ path' = o.how
         /\ running' = o.running
    /\ mainPc' = "finally"
    /\ UNCHANGED <<connVars, cfgVars, opVars, last_position, short_window,
                   long_window, loopVars, hashed, testVars, exVars, sdkVars, command, cleanups>>

\* SIGINT or SIGTERM: handle_exit raises SystemExit where main is.  Before
\* the try block the process ends; inside it the finally clause is next;
\* inside cleanup the rest of cleanup is skipped.  One signal is followed.
MainSignal ==
    /\ mainPc \in {"start", "parsed", "initialize", "command", "finally"}
    /\ path \notin {"signal_before_try", "signal_in_initialize",
                     "signal_in_command", "signal_in_cleanup"}
    /\ IF mainPc \in {"start", "parsed"}
       THEN /\ mainPc' = "exit"
            /\ path' = "signal_before_try"
            /\ UNCHANGED <<connVars, running, cleanups>>
       ELSE IF mainPc = "initialize"
       THEN /\ mainPc' = "finally"
            /\ path' = "signal_in_initialize"
            /\ \E c \in InterruptedConnect(Conn) : SetConn(c)
            /\ UNCHANGED <<running, cleanups>>
       ELSE IF mainPc = "command"
       THEN /\ mainPc' = "finally"
            /\ path' = "signal_in_command"
            /\ \E o \in CommandOutcomes(command, Conn) : running' = o.running
            /\ UNCHANGED <<connVars, cleanups>>
       ELSE /\ mainPc' = "exit"
            /\ path' = "signal_in_cleanup"
            /\ cleanups' = cleanups + 1
            /\ \E closed \in BOOLEAN :
                 /\ running' = FALSE
                 /\ SetConn(IF closed THEN CloseConn(Conn) ELSE Conn)
    /\ UNCHANGED <<cfgVars, opVars, last_position, short_window, long_window,
                   loopVars, hashed, testVars, exVars, sdkVars, command>>

\* finally: trader.cleanup(), which stops the strategy and closes the
\* connection; then main returns or the exception goes on.
MainCleanup ==
    /\ mainPc = "finally"
    /\ cleanups' = cleanups + 1
    /\ running' = FALSE
    /\ SetConn(CloseConn(Conn))
    /\ mainPc' = "exit"
    /\ UNCHANGED <<cfgVars, opVars, last_position, short_window, long_window,
                   loopVars, hashed, testVars, exVars, sdkVars, command, path>>

NextMain ==
    \/ MainParse
    \/ MainEnterTry
    \/ MainInitialize
    \/ MainCommand
    \/ MainSignal
    \/ MainCleanup

SpecMain == Init /\ [][NextMain]_vars

----------------------------------------------------------------------------
(* SpecExamples: run_all_examples of api/quote.py *)

NUM_QUOTE_EXAMPLES == 27
GET_STOCK_QUOTE_EXAMPLE == 5     \* position of example_get_stock_quote

\* An example function of the common shape (example_get_market_snapshot,
\* example_get_margin_ratio, ...): it opens a context, makes one call, reads
\* the answer when the call returned RET_OK, and closes the context as its
\* last statement.  open is the number of contexts it leaves open.
ExampleRuns(ep) ==
    {[calls |-> Call("OpenQuoteContext", e), ret |-> "RAISE", open |-> 0] : e \in Excs}
    \cup
    {[calls |-> Call("OpenQuoteContext", "OK") \o Call(ep, o), ret |-> "None",
      open |-> 0] : o \in {"OK", "ERR"}}
    \cup
    \* the call raises, or reading the answer does (data['code'][0] of a
    \* frame without rows): close() is not reached
    {[calls |-> Call("OpenQuoteContext", "OK") \o Call(ep, o), ret |-> "RAISE",
      open |-> 1] : o \in Excs \cup {"OK"}}

\* example_get_stock_quote: subscribe, and the quote when that returned
\* RET_OK.
ExampleGetStockQuoteRuns ==
    LET q == Call("OpenQuoteContext", "OK")
    IN  {[calls |-> Call("OpenQuoteContext", e), ret |-> "RAISE", open |-> 0] : e \in Excs}
        \cup
        {[calls |-> q \o Call("subscribe", "ERR"), ret |-> "None", open |-> 0]}
        \cup
        {[calls |-> q \o Call("subscribe", e), ret |-> "RAISE", open |-> 1] : e \in Excs}
        \cup
        {[calls |-> q \o Call("subscribe", "OK") \o Call("get_stock_quote", o),
          ret |-> "None", open |-> 0] : o \in {"OK", "ERR"}}
        \cup
        {[calls |-> q \o Call("subscribe", "OK") \o Call("get_stock_quote", o),
          ret |-> "RAISE", open |-> 1] : o \in Excs \cup {"OK"}}

\* The next try block of run_all_examples: an exception of the example is
\* printed and the next example follows.
RunExample ==
    /\ examplesRun < NUM_QUOTE_EXAMPLES
    /\ \E r \in IF examplesRun + 1 = GET_STOCK_QUOTE_EXAMPLE
                 THEN ExampleGetStockQuoteRuns
                 ELSE ExampleRuns("example_call") :
         /\ examplesRun' = examplesRun + 1
         /\ openContexts' = openContexts + r.open
         /\ Invoked("example", Run(r.calls, r.ret))
    /\ UNCHANGED <<connVars, cfgVars, stratVars, loopVars, hashed, testVars, mainVars,
                   sdkVars>>

NextExamples ==
    \/ RunExample

SpecExamples == Init /\ [][NextExamples]_vars

----------------------------------------------------------------------------
(* SpecHandlers: push callbacks on the SDK thread, wrappers on the main one *)

RET_OK == "OK"
RET_ERROR == "ERR"

\* The handler classes of api/quote.py and foo.py.
Handlers ==
    {"StockQuoteHandler", "OrderBookHandler", "CurKlineHandler", "TickerHandler",
     "RTDataHandler", "BrokerHandler",
     "TestOrderBookHandler", "TestTickerHandler", "TestQuoteHandler"}

\* What the base class on_recv_rsp hands a handler: the parsed push, or an
\* error and its message.
PushInputs ==
    {[ret_code |-> RET_OK, data |-> "rows"],
     [ret_code |-> RET_OK, data |-> "no_rows"],
     [ret_code |-> RET_ERROR, data |-> "message"]}

\* on_recv_rsp handing on a reformatted copy of the data.
OnRecvRspReformatted(h, ret_code, data) ==
    IF ret_code # RET_OK
    THEN [ret |-> RET_ERROR, data |-> data]
    ELSE [ret |-> RET_OK, data |-> "reformatted"]

\* on_recv_rsp of every handler class: it logs, and returns the data with
\* RET_ERROR or RET_OK.
OnRecvRsp(h, ret_code, data) ==
    IF ret_code # RET_OK
    THEN [ret |-> RET_ERROR, data |-> data]
    ELSE [ret |-> RET_OK, data |-> data]

\* The SDK thread delivers one push to a registered handler.
Callback ==
    /\ \E h \in Handlers : \E in \in PushInputs :
         /\ pushed' = {[handler |-> h, ret_code |-> in.ret_code, data |-> in.data]}
         /\ handled' = {OnRecvRsp(h, in.ret_code, in.data)}
    /\ UNCHANGED <<connVars, cfgVars, opVars, stratVars, loopVars, hashed, testVars,
                   mainVars, exVars>>

NextHandlers ==
    \/ Callback
    \/ Connect
    \/ Close
    \/ SetMarket
    \/ UnlockTrade

SpecHandlers == Init /\ [][NextHandlers]_vars

----------------------------------------------------------------------------
(* SpecConn: the four public operations of one FutuConnection *)

NextConn ==
    \/ Connect
    \/ Close
    \/ SetMarket
    \/ UnlockTrade

SpecConn == Init /\ [][NextConn]_vars

----------------------------------------------------------------------------
(* SpecConfig: the wrappers under every configuration of the environment *)

ConfigPwds == {<<>>, PlainPwd, Rep("a", MD5_HEX_LEN)}

InitConfig ==
    /\ IdleConn
    /\ environ \in {{}} \cup {{v} : v \in EnvValues}
    /\ TRADING_ENV = ConfigTradingEnv(environ)
    /\ USE_MD5_HASH \in BOOLEAN
    /\ IS_PASSWORD_HASHED \in BOOLEAN
    /\ UNLOCK_TRADE_PWD \in ConfigPwds
    /\ IdleOp
    /\ running = FALSE
    /\ last_position = 0
    /\ short_window = 10
    /\ long_window = 30
    /\ IdleLoop
    /\ IdleProg

NextConfig ==
    \/ Connect
    \/ UnlockTrade
    \/ PlaceOrder
    \/ CancelOrder
    \/ ModifyOrder

SpecConfig == InitConfig /\ [][NextConfig]_vars

----------------------------------------------------------------------------
(* SpecHash: utils.hash_password applied to a password, then to its result *)

HashOnce ==
    /\ \E pw \in Pwds, u \in BOOLEAN, h \in BOOLEAN :
           hashed' = [p |-> pw, use_md5 |-> u, is_already_hashed |-> h,
                      once |-> {HashPassword(pw, u, h)}, twice |-> {}]
    /\ UNCHANGED <<connVars, cfgVars, opVars, stratVars, loopVars, testVars, mainVars, exVars, sdkVars>>

HashTwice ==
    /\ hashed.once # {}
    /\ hashed.twice = {}
    /\ hashed' = [hashed EXCEPT !.twice =
                     {HashPassword(x, hashed.use_md5, hashed.is_already_hashed) :
                         x \in hashed.once}]
    /\ UNCHANGED <<connVars, cfgVars, opVars, stratVars, loopVars, testVars, mainVars, exVars, sdkVars>>

NextHash ==
    \/ HashOnce
    \/ HashTwice

SpecHash == Init /\ [][NextHash]_vars

----------------------------------------------------------------------------
(* Properties *)

N == Len(kline)

\* Both moving averages exist on bar i.
BothDefined(i) == i >= 1 /\ i >= short_window /\ i >= long_window

\* The short average is above / at or below the long average on bar i.
Above(i) ==
    /\ BothDefined(i)
    /\ WindowSum(kline, i, short_window) * long_window
           > WindowSum(kline, i, long_window) * short_window
AtOrBelow(i) ==
    /\ BothDefined(i)
    /\ WindowSum(kline, i, short_window) * long_window
           <= WindowSum(kline, i, long_window) * short_window

\* process_data has just returned, having fetched the bars in kline.
Processed == pc = "signal" /\ fetched = "data"

UpwardCross   == Above(N) /\ AtOrBelow(N - 1)
DownwardCross == AtOrBelow(N) /\ Above(N - 1)

\* C1: on the bars fetched, short average above the long one on the latest
\* bar, at or below it on the previous bar and last_position = 0: process_data
\* returns BUY.
C1_BuyOnUpwardCross ==
    (Processed /\ UpwardCross /\ last_position = 0) => signal = "BUY"

C1_Witness ==
    Processed /\ UpwardCross /\ last_position = 0 /\ signal = "BUY"

\* C2: short average at or below the long one on the latest bar, above it on
\* the previous bar and last_position = 1: process_data returns SELL.
C2_SellOnDownwardCross ==
    (Processed /\ DownwardCross /\ last_position = 1) => signal = "SELL"

C2_Witness ==
    Processed /\ DownwardCross /\ last_position = 1 /\ signal = "SELL"

\* C3: process_data returns no signal when the short-above-long relation is
\* the same on the previous and the latest bar, on an upward crossing while a
\* position is held, and on a downward crossing while none is held.  (The
\* relation is false on a bar where an average does not exist.)
C3_NoSignalOtherwise ==
    Processed =>
        /\ (Above(N) <=> Above(N - 1)) => signal = "NONE"
        /\ (Above(N) /\ ~Above(N - 1) /\ last_position = 1) => signal = "NONE"
        /\ (~Above(N) /\ Above(N - 1) /\ last_position = 0) => signal = "NONE"

C3_Witness ==
    /\ Processed /\ signal = "NONE"
    /\ DownwardCross /\ last_position = 0
    /\ iter >= 1

\* C4 as claimed: over the same bar data a crossing's signal is emitted at
\* most once, whatever execute_signal did with it.
C4_OneSignalPerCrossing == emits <= 1

\* C4 amended: over the same bar data, once the order for a signal has been
\* placed no later iteration emits the signal again; an execute_signal that
\* places no order leaves last_position as it was, and the signal is emitted
\* again: the signals emitted exceed the unplaced ones by at most one.
C4_OneSignalPerPlacedOrder ==
    /\ emits <= notPlaced + 1
    /\ (pc = "sleep" /\ lastOp = "execute_signal" /\ ret = "False")
           => last_position = (IF signal = "BUY" THEN 0 ELSE 1)
    /\ (pc = "sleep" /\ lastOp = "execute_signal" /\ ret = "True")
           => last_position = (IF signal = "BUY" THEN 1 ELSE 0)

C4_Witness ==
    /\ Processed /\ signal = "NONE"
    /\ UpwardCross /\ last_position = 1
    /\ emits = 1 /\ notPlaced = 0

\* C5: run_strategy('sma', stock) on a connected trader whose subscription
\* succeeded enters the poll loop, so process_data is called.
Subscribed ==
    \E i \in DOMAIN calls : calls[i] = [ep |-> "subscribe", out |-> "OK"]

C5_RunStrategyPolls ==
    (lastOp = "run_strategy" /\ wasConnected /\ Subscribed) => pc # "idle"

\* C6: an iteration makes at most one vendor place_order call, and none when
\* process_data returned no signal.
OrderCalls == {i \in DOMAIN calls : calls[i].ep = "place_order"}

C6_AtMostOneOrderCall ==
    /\ Cardinality(OrderCalls) <= 1
    /\ signal = "NONE" => OrderCalls = {}

C6_Witness ==
    /\ pc = "sleep" /\ lastOp = "execute_signal" /\ ret = "True"
    /\ Cardinality(OrderCalls) = 1

\* C7: an exception raised by process_data or execute_signal ends the loop:
\* start() returns without propagating it, running is False, and no further
\* iteration runs.
C7_LoopFailureEndsStart ==
    /\ [](raisedBy \in {"process_data", "execute_signal"}
             => (pc = "done" /\ ~running /\ ~propagated))
    /\ [][pc = "done" => (pc' = "done" /\ iter' = iter /\ ~running')]_vars

C7_Witness ==
    raisedBy = "execute_signal" /\ pc = "done" /\ ~running /\ iter >= 1

\* C8 as claimed: within one invocation, a vendor endpoint whose call failed
\* (error code or exception) is not called again.
C8_NoRetry ==
    \A i \in DOMAIN calls : \A j \in DOMAIN calls :
        (i < j /\ calls[i].out # "OK") => calls[j].ep # calls[i].ep

\* C8 amended: within one invocation, an endpoint that returned an error code
\* is not called again.  An endpoint that raised is called again, with other
\* arguments: once for unlock_trade and accinfo_query (any exception) and for
\* request_history_kline (ValueError only); for order_list_query and
\* position_list_query once after a TypeError and once more if that call
\* raised.  No endpoint is called more than three times.
CallsOf(ep) == {i \in DOMAIN calls : calls[i].ep = ep}

C8_NoRetryAfterErrorCode ==
    /\ \A i \in DOMAIN calls : \A j \in DOMAIN calls :
         (i < j /\ calls[j].ep = calls[i].ep) => calls[i].out \in Excs
    /\ \A j \in DOMAIN calls :
         (\E i \in DOMAIN calls : i < j /\ calls[i].ep = calls[j].ep) =>
            /\ calls[j - 1].ep = calls[j].ep
            /\ calls[j].ep \in {"unlock_trade", "accinfo_query",
                                "request_history_kline", "order_list_query",
                                "position_list_query"}
            /\ calls[j].ep = "request_history_kline"
                   => calls[j - 1].out = "ValueError"
    /\ \A ep \in {calls[i].ep : i \in DOMAIN calls} :
         /\ Cardinality(CallsOf(ep)) <= 3
         /\ Cardinality(CallsOf(ep)) = 3
                => ep \in {"order_list_query", "position_list_query"}
         /\ (ep \in {"order_list_query", "position_list_query"}
                /\ Cardinality(CallsOf(ep)) >= 2) =>
              \E i \in CallsOf(ep) : /\ calls[i].out = "TypeError"
                                     /\ \A k \in CallsOf(ep) : i <= k

C8_Witness ==
    /\ lastOp = "get_positions"
    /\ Len(calls) = 3
    /\ calls[2] = [ep |-> "position_list_query", out |-> "TypeError"]
    /\ calls[3] = [ep |-> "position_list_query", out |-> "ERR"]
    /\ ret = "None"

\* C9 as claimed: entered while connected is False, every Trading and
\* MarketData operation and unlock_trade makes no vendor call and returns None
\* or False.
MarketDataOps == {"get_stock_quote", "get_market_snapshot", "search_stocks",
                  "get_kline", "get_order_book", "subscribe_stock"}
PublicTradingOps == {"place_order", "cancel_order", "modify_order",
                     "get_order_list", "get_positions", "get_account_info",
                     "get_account_list"}
TradingOps == PublicTradingOps \cup {"_get_hk_account_id"}

C9_DisconnectedNoCall ==
    (lastOp \in MarketDataOps \cup TradingOps \cup {"unlock_trade"} /\ ~wasConnected)
        => (calls = <<>> /\ ret \in {"None", "False"})

\* C9 amended: entered while connected is False, every public Trading and
\* MarketData operation and unlock_trade makes no vendor call and returns None
\* or False.  (Trading._get_hk_account_id does not test connected: it calls
\* get_acc_list whenever a trade context is held.)
C9_DisconnectedNoPublicCall ==
    (lastOp \in MarketDataOps \cup PublicTradingOps \cup {"unlock_trade"}
        /\ ~wasConnected)
        => (calls = <<>> /\ ret \in {"None", "False"})

C9_Witness ==
    /\ lastOp = "place_order" /\ ~wasConnected
    /\ trade_ctx = "open" /\ UNLOCK_TRADE_PWD # <<>>
    /\ calls = <<>> /\ ret = "None"

\* C10: place_order, cancel_order and modify_order make an order call
\* (place_order, modify_order, order_list_query) only after unlock_trade has
\* succeeded earlier in the same invocation.
OrderEndpoints == {"place_order", "modify_order", "order_list_query"}

C10_OrderOnlyAfterUnlock ==
    lastOp \in {"place_order", "cancel_order", "modify_order"} =>
        \A i \in DOMAIN calls :
            calls[i].ep \in OrderEndpoints =>
                \E j \in DOMAIN calls :
                    j < i /\ calls[j] = [ep |-> "unlock_trade", out |-> "OK"]

C10_Witness ==
    /\ lastOp = "cancel_order" /\ ret = "True"
    /\ calls[Len(calls)] = [ep |-> "modify_order", out |-> "OK"]
----------------------------------------------------------------------------
\* The TRADING_ENV setting equals 'REAL' when case is ignored.
SettingIsReal == \E v \in environ : Lower(v) = Lower(REAL)

OrderOps == {"place_order", "cancel_order", "modify_order"}

\* C11: an order placed, cancelled or modified through Trading carries the
\* REAL environment only if the TRADING_ENV setting is 'REAL' in some
\* capitalisation; with any other value, or none, it carries SIMULATE.
C11_RealOnlyWhenSet ==
    lastOp \in OrderOps /\ sent.trd_env # {} =>
        /\ sent.trd_env = {"REAL"} => SettingIsReal
        /\ ~SettingIsReal => sent.trd_env = {"SIMULATE"}

C11_Witness ==
    /\ lastOp = "cancel_order"
    /\ environ = {<<"R", "e", "a", "l">>}
    /\ sent.trd_env = {"REAL"}
    /\ \E i \in DOMAIN calls : calls[i] = [ep |-> "modify_order", out |-> "OK"]

----------------------------------------------------------------------------
\* C15: the password unlock_trade passes to the vendor is the MD5 digest of
\* the configured password when USE_MD5_HASH is set and the password is not
\* hashed already, and the configured password otherwise.
C15_UnlockSendsDigest ==
    lastOp = "unlock_trade" /\ sent.password # {} =>
        sent.password = {HashPassword(UNLOCK_TRADE_PWD, USE_MD5_HASH, IS_PASSWORD_HASHED)}

----------------------------------------------------------------------------
\* C17: hash_password applied to its own result gives that result again,
\* whatever use_md5 and is_already_hashed are; and it returns the password
\* itself when that is empty, when is_already_hashed, or when use_md5 is off.
C17_HashPasswordIdempotent ==
    /\ hashed.twice # {} => hashed.twice = hashed.once
    /\ hashed.once # {} /\ ( \/ hashed.p = <<>>
                             \/ hashed.is_already_hashed
                             \/ ~hashed.use_md5 )
          => hashed.once = {hashed.p}

C17_Witness ==
    /\ hashed.twice # {}
    /\ hashed.use_md5 /\ ~hashed.is_already_hashed
    /\ hashed.once # {hashed.p}
    /\ \A x \in hashed.once : Len(x) = MD5_HEX_LEN

----------------------------------------------------------------------------
\* C19: whatever connect, close, set_market and unlock_trade calls were made,
\* a connection with connected = True holds a quote context and a trade
\* context, both created and neither closed.
C19_ConnectedHoldsOpenContexts ==
    connected => quote_ctx = "open" /\ trade_ctx = "open"

C19_Witness ==
    /\ lastOp = "set_market" /\ ret = "True"
    /\ wasConnected /\ connected
    /\ market = "SH"

----------------------------------------------------------------------------
\* C20: when connect() has returned False, whatever the cause, connected is
\* False and no context the call opened is open.
C20_FailedConnectLeavesClosed ==
    lastOp = "connect" /\ ret = "False" =>
        ~connected /\ quote_ctx # "open" /\ trade_ctx # "open"

----------------------------------------------------------------------------
Ran    == {test_results[i][1] : i \in DOMAIN test_results}
Failed == {test_results[i][1] : i \in {j \in DOMAIN test_results : ~test_results[j][2]}}

\* C13: the test script returns, in strict mode, 0 exactly when every test
\* that ran passed and 1 otherwise; otherwise 1 exactly when the connection
\* test or the market data test ran and failed, and 0 in every other case,
\* failed account or order tests included.
C13_TestExitCode ==
    exit_code # {} =>
        IF args.strict
        THEN exit_code = IF Failed = {} THEN {0} ELSE {1}
        ELSE exit_code = IF Failed \cap {"connection", "market"} # {} THEN {1} ELSE {0}

C13_Witness ==
    /\ exit_code = {0}
    /\ ~args.strict
    /\ Ran = {"connection", "market", "account", "order"}
    /\ Failed = {"account", "order"}

----------------------------------------------------------------------------
QuoteReaders == {"run_quote_demo", "test_market_data", "test_order_simulation"}

\* C16: in run_quote_demo, test_market_data and test_order_simulation,
\* MarketData.get_stock_quote is called only after subscribe_stock, for the
\* same stock and on the same connection, has returned True.
C16_QuoteOnlyAfterSubscribe ==
    lastOp \in QuoteReaders =>
        \A i \in DOMAIN calls :
            calls[i].ep = GET_STOCK_QUOTE =>
                \E j \in 1..(i - 1) :
                    calls[j] = [ep |-> SUBSCRIBE_STOCK, out |-> "True"]

C16_Witness ==
    /\ lastOp = "run_quote_demo"
    /\ ret = "True"
    /\ \E i \in DOMAIN calls : calls[i] = [ep |-> GET_STOCK_QUOTE, out |-> "data"]

----------------------------------------------------------------------------
\* The ways out of main the claim lists: initialize returned False, the
\* command completed, the command raised, a signal arrived while it ran.
ListedPaths == {"init_failed", "completed", "raised", "signal_in_command"}

\* C12: for every command other than hash-pwd, when main has returned or the
\* process has exited on one of the listed paths, FutuTrader.cleanup has been
\* called and, through it, FutuConnection.close.
C12_CleanupBeforeExit ==
    mainPc = "exit" /\ command \in Commands \ {"hash-pwd"} /\ path \in ListedPaths =>
        /\ cleanups = 1
        /\ ~connected /\ quote_ctx # "open" /\ trade_ctx # "open"

C12_Witness ==
    /\ mainPc = "exit"
    /\ command = "strategy"
    /\ path = "signal_in_command"
    /\ cleanups = 1
    /\ quote_ctx = "closed" /\ trade_ctx = "closed"

----------------------------------------------------------------------------
\* C14: when run_all_examples has finished, whatever happened in the
\* examples, an exception partway included, no context an example opened is
\* still open.
C14_NoContextLeftOpen ==
    examplesRun = NUM_QUOTE_EXAMPLES => openContexts = 0

----------------------------------------------------------------------------
\* The state of the main-thread code: every variable but the SDK thread's.
mainThreadVars ==
    <<connVars, cfgVars, opVars, stratVars, loopVars, hashed, testVars, mainVars,
      exVars>>

----------------------------------------------------------------------------
\* C21: a set_market that returns False leaves market and connected as they
\* were before the call, whatever the argument and whether or not the
\* connection was connected.
C21_FailedSetMarketChangesNothing ==
    [][(lastOp' = "set_market" /\ ret' = "False")
          => (market' = market /\ connected' = connected)]_vars

----------------------------------------------------------------------------
\* The poll loop of a start() call is executing.
InLoop == pc \in {"process", "signal", "sleep"}

\* C22: whenever no call of start() is executing (it has returned, or has
\* left with an exception), running is False.
C22_RunningOnlyInsideStart ==
    ~InLoop => running = FALSE

----------------------------------------------------------------------------
\* C23: start() called while running is True returns at once: it does not
\* call setup (no call is made, nothing is raised), enters no poll loop and
\* leaves running True and every other field as it was.
C23_StartWhileRunningIsNoOp ==
    [][(lastOp' = "start" /\ running)
          => /\ running' = TRUE
             /\ ret' = "None"
             /\ calls' = <<>>
             /\ UNCHANGED <<connVars, cfgVars, last_position, short_window,
                            long_window, loopVars, progVars>>]_vars

C23_Witness ==
    /\ lastOp = "start"
    /\ ret = "None"
    /\ running = TRUE
    /\ pc = "idle"

----------------------------------------------------------------------------
\* C24: when the data process_data fetched is missing, or too short for both
\* averages to exist on the latest and on the previous bar (exactly
\* long_window bars included), process_data returns no signal and does not
\* raise; so a signal is emitted only with both averages on both bars.
C24_NoSignalWithoutBothBars ==
    ( /\ lastOp = "process_data"
      /\ pc \in {"signal", "done"}
      /\ (fetched = "None" \/ ~BothDefined(N) \/ ~BothDefined(N - 1)) )
        => ret = "NONE"

====
